---- MODULE Spec2Model ----
(***************************************************************************)
(* Model of ProjectSchedulerServer: the in-memory project store and its   *)
(* service (src/app/services.py) and the HTTP handlers and four-stage      *)
(* LangGraph workflow built on it (src/app/main.py).                       *)
(*                                                                         *)
(* Two specifications share the variables:                                 *)
(*   Spec         the FastAPI application: one action per handler; the     *)
(*                generate handler is split at the workflow's node         *)
(*                boundaries and holds the event loop while it runs;       *)
(*   ServiceSpec  ProjectService's static methods called directly, in any  *)
(*                order and with any arguments of their declared types.    *)
(* GET / and GET /health only read and are left out.  uuid4() is taken to   *)
(* return a value it has not returned before.                              *)
(*                                                                         *)
(* Text is modelled structurally.  The searchable input fields are         *)
(* sequences of one-character strings, so that lower() and the substring   *)
(* test are computed.  An LLM reply is the term [content |-> prompt]: it   *)
(* is determined by the prompt, so a reply records every field its prompt  *)
(* embedded; whether the call returns or raises is nondeterministic.       *)
(***************************************************************************)
EXTENDS Integers, Sequences, FiniteSets, TLC

VARIABLES
    projects_store, \* the dict of services.py: insertion-ordered <<key, value>> items
    uuids,          \* how many uuid4() values have been drawn; the next one is fresh
    run,            \* the generate_project_plan call in flight on the event loop
    resp,           \* the last HTTP response sent (Spec)
    ret             \* the last ProjectService call and what it returned (ServiceSpec)

vars == <<projects_store, uuids, run, resp, ret>>

(***************************************************************************)
(* Bounds                                                                  *)
(***************************************************************************)
\* uuid4() is drawn at most this many times (records ever created)
MaxProjects == 2

\* Readings of datetime.utcnow().  The wall clock is not monotonic and has a
\* finite resolution: a reading may equal or precede an earlier one.  Two
\* values make every order between two readings occur.
Times == {0, 1}

\* Identifiers a caller may name: every id that can be issued.  One not yet
\* issued, or already deleted, is absent from the store.
ProjectIds == 1 .. MaxProjects

(***************************************************************************)
(* Python values                                                           *)
(***************************************************************************)
\* None, and the str "".  Optional values are records, so that None compares
\* with every one of them.
None == [none |-> TRUE]
EmptyStr == [text |-> ""]

\* str.lower() on the alphabet used below
LowerChar(c) ==
    CASE c = "A" -> "a"
      [] c = "B" -> "b"
      [] OTHER -> c

lower(s) == [i \in DOMAIN s |-> LowerChar(s[i])]

\* Python's `q in s` on strings
contains(s, q) ==
    \E i \in 0 .. (Len(s) - Len(q)) : SubSeq(s, i + 1, i + Len(q)) = q

\* ProjectInput values submitted by callers
ProjectInputs ==
    { [project_type |-> <<"A", "b">>, objectives |-> <<"b", "A">>,
       industry |-> <<"a">>,
       team_members |-> <<"Alice", "Bob">>, requirements |-> <<"iOS">>],
      [project_type |-> <<"B">>, objectives |-> <<"a", "b">>,
       industry |-> <<"B", "b">>,
       team_members |-> <<"Carol">>, requirements |-> <<>>] }

\* Query strings submitted to search
Queries ==
    { <<>>, <<"A">>, <<"a", "b">>, <<"B", "A">>, <<"b", "b">>, <<"a", "a">> }

\* Argument tuples (plan, schedule, review, html_output) given to
\* update_project_results by a direct caller
ResultTexts ==
    { [plan |-> [text |-> "p1"], schedule |-> [text |-> "s1"],
       review |-> [text |-> "r1"], html_output |-> [text |-> "h1"]],
      [plan |-> [text |-> "p2"], schedule |-> [text |-> "s2"],
       review |-> [text |-> "p2"], html_output |-> EmptyStr] }

(***************************************************************************)
(* projects_store: a dict, kept as its items in insertion order            *)
(***************************************************************************)
Keys(store) == { store[i].key : i \in DOMAIN store }

Values(store) == [i \in DOMAIN store |-> store[i].value]

IndexOf(store, k) == CHOOSE i \in DOMAIN store : store[i].key = k

\* store[k]
Item(store, k) == store[IndexOf(store, k)].value

\* store.get(k)
DictGet(store, k) == IF k \in Keys(store) THEN Item(store, k) ELSE None

\* store[k] = v : replaces in place when k is a key, appends otherwise
DictSet(store, k, v) ==
    IF k \in Keys(store)
    THEN [store EXCEPT ![IndexOf(store, k)] = [key |-> k, value |-> v]]
    ELSE Append(store, [key |-> k, value |-> v])

\* del store[k]
DictDel(store, k) ==
    LET n == IndexOf(store, k)
    IN  [i \in 1 .. (Len(store) - 1) |-> IF i < n THEN store[i] ELSE store[i + 1]]

(***************************************************************************)
(* ProjectService                                                          *)
(***************************************************************************)
\* The Project model: plan, schedule, review and html_output default to None
Project(id, project_input, created_at, updated_at) ==
    [id |-> id,
     project_type |-> project_input.project_type,
     objectives |-> project_input.objectives,
     industry |-> project_input.industry,
     team_members |-> project_input.team_members,
     requirements |-> project_input.requirements,
     plan |-> None, schedule |-> None, review |-> None, html_output |-> None,
     created_at |-> created_at, updated_at |-> updated_at]

\* Variant of create_project: plan starts as "" instead of None
create_project_plan_preset(store, project_input, project_id, now) ==
    LET project == [Project(project_id, project_input, now, now) EXCEPT !.plan = EmptyStr]
    IN  [store |-> DictSet(store, project_id, project), value |-> project]

\* project_id is the uuid4() drawn, now the utcnow() read
ProjectService_create_project(store, project_input, project_id, now) ==
    LET project == Project(project_id, project_input, now, now)
    IN  [store |-> DictSet(store, project_id, project), value |-> project]

\* Variant of update_project_results: updated_at is not refreshed
update_project_results_stale(store, project_id, plan, schedule, review, html_output, now) ==
    IF project_id \notin Keys(store)
    THEN [store |-> store, value |-> None]
    ELSE LET project == [Item(store, project_id) EXCEPT
                            !.plan = plan,
                            !.schedule = schedule,
                            !.review = review,
                            !.html_output = html_output]
         IN  [store |-> DictSet(store, project_id, project), value |-> project]

\* Variant of update_project_results: html_output is not assigned
update_project_results_no_html(store, project_id, plan, schedule, review, html_output, now) ==
    IF project_id \notin Keys(store)
    THEN [store |-> store, value |-> None]
    ELSE LET project == [Item(store, project_id) EXCEPT
                            !.plan = plan,
                            !.schedule = schedule,
                            !.review = review,
                            !.updated_at = now]
         IN  [store |-> DictSet(store, project_id, project), value |-> project]

ProjectService_update_project_results(store, project_id, plan, schedule, review, html_output, now) ==
    IF project_id \notin Keys(store)
    THEN [store |-> store, value |-> None]
    ELSE LET project == [Item(store, project_id) EXCEPT
                            !.plan = plan,
                            !.schedule = schedule,
                            !.review = review,
                            !.html_output = html_output,
                            !.updated_at = now]
         IN  [store |-> DictSet(store, project_id, project), value |-> project]

ProjectService_get_all_projects(store) == Values(store)

ProjectService_get_project_by_id(store, project_id) == DictGet(store, project_id)

\* Variant of delete_project: removes the newest item instead of the named one
delete_project_newest(store, project_id) ==
    IF project_id \in Keys(store)
    THEN [store |-> SubSeq(store, 1, Len(store) - 1), value |-> TRUE]
    ELSE [store |-> store, value |-> FALSE]

ProjectService_delete_project(store, project_id) ==
    IF project_id \in Keys(store)
    THEN [store |-> DictDel(store, project_id), value |-> TRUE]
    ELSE [store |-> store, value |-> FALSE]

\* Variant of search_projects: the query is not lower-cased
search_projects_case_sensitive(store, query) ==
    LET Match(project) ==
            \/ contains(lower(project.objectives), query)
            \/ contains(lower(project.project_type), query)
            \/ contains(lower(project.industry), query)
    IN  SelectSeq(Values(store), Match)

ProjectService_search_projects(store, query) ==
    LET query_lower == lower(query)
        Match(project) ==
            \/ contains(lower(project.objectives), query_lower)
            \/ contains(lower(project.project_type), query_lower)
            \/ contains(lower(project.industry), query_lower)
    IN  SelectSeq(Values(store), Match)

(***************************************************************************)
(* ServiceSpec: the service called directly                                *)
(***************************************************************************)
Idle == [node |-> "idle"]

NoResponse == [op |-> "none", arg |-> None, status |-> 0, body |-> None]

NoReturn == [fn |-> "none", arg |-> None, value |-> None]

Init ==
    /\ projects_store = <<>>
    /\ uuids = 0
    /\ run = Idle
    /\ resp = NoResponse
    /\ ret = NoReturn

Call_create_project ==
    /\ uuids < MaxProjects
    /\ \E project_input \in ProjectInputs, now \in Times :
          LET r == ProjectService_create_project(projects_store, project_input, uuids + 1, now)
          IN  /\ projects_store' = r.store
              /\ ret' = [fn |-> "create_project", arg |-> project_input, value |-> r.value]
    /\ uuids' = uuids + 1
    /\ UNCHANGED <<run, resp>>

Call_update_project_results ==
    /\ \E project_id \in ProjectIds, t \in ResultTexts, now \in Times :
          LET r == ProjectService_update_project_results(projects_store, project_id,
                       t.plan, t.schedule, t.review, t.html_output, now)
          IN  /\ projects_store' = r.store
              /\ ret' = [fn |-> "update_project_results",
                         arg |-> [project_id |-> project_id, texts |-> t, now |-> now],
                         value |-> r.value]
    /\ UNCHANGED <<uuids, run, resp>>

Call_get_all_projects ==
    /\ ret' = [fn |-> "get_all_projects", arg |-> None,
               value |-> ProjectService_get_all_projects(projects_store)]
    /\ UNCHANGED <<projects_store, uuids, run, resp>>

Call_get_project_by_id ==
    /\ \E project_id \in ProjectIds :
          ret' = [fn |-> "get_project_by_id", arg |-> project_id,
                  value |-> ProjectService_get_project_by_id(projects_store, project_id)]
    /\ UNCHANGED <<projects_store, uuids, run, resp>>

Call_delete_project ==
    /\ \E project_id \in ProjectIds :
          LET r == ProjectService_delete_project(projects_store, project_id)
          IN  /\ projects_store' = r.store
              /\ ret' = [fn |-> "delete_project", arg |-> project_id, value |-> r.value]
    /\ UNCHANGED <<uuids, run, resp>>

Call_search_projects ==
    /\ \E query \in Queries :
          ret' = [fn |-> "search_projects", arg |-> query,
                  value |-> ProjectService_search_projects(projects_store, query)]
    /\ UNCHANGED <<projects_store, uuids, run, resp>>

ServiceNext ==
    \/ Call_create_project
    \/ Call_update_project_results
    \/ Call_get_all_projects
    \/ Call_get_project_by_id
    \/ Call_delete_project
    \/ Call_search_projects

ServiceSpec == Init /\ [][ServiceNext]_vars

(***************************************************************************)
(* The workflow (main.py): four agents on a LangGraph StateGraph           *)
(***************************************************************************)
Raise(exc) == [raised |-> TRUE, exc |-> exc]

Return(value) == [raised |-> FALSE, value |-> value]

\* llm.invoke(prompt).content
llm_invoke(prompt) == [content |-> prompt]

\* state[k] = v on the ProjectState dict
SetKey(state, k, v) ==
    [x \in DOMAIN state \cup {k} |-> IF x = k THEN v ELSE state[x]]

\* llm_ok: whether this agent's llm.invoke returns (TRUE) or raises
planner_agent(state, llm_ok) ==
    IF "input" \notin DOMAIN state THEN Raise("KeyError: 'input'")
    ELSE IF ~llm_ok THEN Raise("llm.invoke failed in planner")
    ELSE LET prompt == [agent |-> "Project Planner", project_info |-> state["input"]]
         IN  Return(SetKey(state, "plan", llm_invoke(prompt)))

scheduler_agent(state, llm_ok) ==
    IF "plan" \notin DOMAIN state THEN Raise("KeyError: 'plan'")
    ELSE IF "input" \notin DOMAIN state THEN Raise("KeyError: 'input'")
    ELSE IF ~llm_ok THEN Raise("llm.invoke failed in scheduler")
    ELSE LET prompt == [agent |-> "Project Scheduler", plan |-> state["plan"],
                        project_info |-> state["input"]]
         IN  Return(SetKey(state, "schedule", llm_invoke(prompt)))

reviewer_agent(state, llm_ok) ==
    IF "schedule" \notin DOMAIN state THEN Raise("KeyError: 'schedule'")
    ELSE IF "input" \notin DOMAIN state THEN Raise("KeyError: 'input'")
    ELSE IF ~llm_ok THEN Raise("llm.invoke failed in reviewer")
    ELSE LET prompt == [agent |-> "Project Reviewer", schedule |-> state["schedule"],
                        project_info |-> state["input"]]
         IN  Return(SetKey(state, "review", llm_invoke(prompt)))

html_agent(state, llm_ok) ==
    IF "plan" \notin DOMAIN state THEN Raise("KeyError: 'plan'")
    ELSE IF "schedule" \notin DOMAIN state THEN Raise("KeyError: 'schedule'")
    ELSE IF "review" \notin DOMAIN state THEN Raise("KeyError: 'review'")
    ELSE IF "input" \notin DOMAIN state THEN Raise("KeyError: 'input'")
    ELSE IF ~llm_ok THEN Raise("llm.invoke failed in html_generator")
    ELSE LET prompt == [agent |-> "HTML Generator", project_info |-> state["input"],
                        plan |-> state["plan"], schedule |-> state["schedule"],
                        review |-> state["review"]]
         IN  Return(SetKey(state, "html_output", llm_invoke(prompt)))

END == "__end__"

\* workflow.add_node
Nodes == {"planner", "scheduler", "reviewer", "html_generator"}

RunNode(node, state, llm_ok) ==
    CASE node = "planner" -> planner_agent(state, llm_ok)
      [] node = "scheduler" -> scheduler_agent(state, llm_ok)
      [] node = "reviewer" -> reviewer_agent(state, llm_ok)
      [] node = "html_generator" -> html_agent(state, llm_ok)

\* workflow.set_entry_point
entry_point == "planner"

\* Variant of the edges: planner leads to reviewer, scheduler is skipped
edges_skip_scheduler ==
    [planner |-> "reviewer",
     scheduler |-> "reviewer",
     reviewer |-> "html_generator",
     html_generator |-> END]

\* workflow.add_edge
edges ==
    [planner |-> "scheduler",
     scheduler |-> "reviewer",
     reviewer |-> "html_generator",
     html_generator |-> END]

(***************************************************************************)
(* The HTTP handlers (main.py)                                             *)
(***************************************************************************)
HTTPException(status_code, detail) ==
    [type |-> "HTTPException", status_code |-> status_code, detail |-> detail]

Exception(message) == [type |-> "Exception", message |-> message]

ProjectResponse(id, plan, schedule, review, html_output, created_at) ==
    [id |-> id, plan |-> plan, schedule |-> schedule, review |-> review,
     html_output |-> html_output, created_at |-> created_at]

\* Variant of ProjectListResponse: the summary also carries the plan
ProjectListResponse_with_plan(project) ==
    [id |-> project.id,
     project_type |-> project.project_type,
     objectives |-> project.objectives,
     industry |-> project.industry,
     created_at |-> project.created_at,
     plan |-> project.plan]

ProjectListResponse(project) ==
    [id |-> project.id,
     project_type |-> project.project_type,
     objectives |-> project.objectives,
     industry |-> project.industry,
     created_at |-> project.created_at]

\* `x or ""`
OrEmpty(x) == IF x = None \/ x = EmptyStr THEN EmptyStr ELSE x

\* The f-string of generate_project_plan
formatted_input(project_input) ==
    [project_type |-> project_input.project_type,
     objectives |-> project_input.objectives,
     industry |-> project_input.industry,
     team_members |-> [i \in DOMAIN project_input.team_members |->
                          <<"- ", project_input.team_members[i]>>],
     requirements |-> [i \in DOMAIN project_input.requirements |->
                          <<"- ", project_input.requirements[i]>>]]

\* A response as the client sees it
Respond(op, arg, status, body) == [op |-> op, arg |-> arg, status |-> status, body |-> body]

\* What an exception leaving a handler becomes
RespondError(op, arg, exc) == Respond(op, arg, exc.status_code, [detail |-> exc.detail])

\* Variant of EventLoopFree: handlers start while a workflow is in flight
EventLoopShared == TRUE

\* Every handler is an `async def` that never awaits: once started it runs on
\* the event loop to its end, the blocking app_workflow.invoke included, and
\* no other handler runs in between.
EventLoopFree == run = Idle

\* try-body up to the workflow: create the record, format the input
generate_project_plan ==
    /\ EventLoopFree
    /\ uuids < MaxProjects
    /\ \E project_input \in ProjectInputs, now \in Times :
          LET r == ProjectService_create_project(projects_store, project_input, uuids + 1, now)
          IN  /\ projects_store' = r.store
              /\ run' = [node |-> entry_point,
                         project_input |-> project_input,
                         project |-> r.value,
                         state |-> [input |-> formatted_input(project_input)],
                         exc |-> None]
    /\ uuids' = uuids + 1
    /\ UNCHANGED <<resp, ret>>

\* app_workflow.invoke: the node at hand runs, then its edge is followed; an
\* exception leaves invoke and the try-body
app_workflow_invoke ==
    /\ run.node \in Nodes
    /\ \E llm_ok \in BOOLEAN :
          LET r == RunNode(run.node, run.state, llm_ok)
          IN  run' = IF r.raised
                     THEN [run EXCEPT !.node = "raised", !.exc = Exception(r.exc)]
                     ELSE [run EXCEPT !.node = edges[run.node], !.state = r.value]
    /\ UNCHANGED <<projects_store, uuids, resp, ret>>

\* try-body after the workflow: update the record, build the response
generate_project_plan_update ==
    /\ run.node = END
    /\ LET output == run.state
           missing == {"plan", "schedule", "review", "html_output"} \ DOMAIN output
       IN  IF missing # {}
           THEN /\ run' = [run EXCEPT !.node = "raised", !.exc = Exception("KeyError")]
                /\ UNCHANGED <<projects_store, resp>>
           ELSE \E now \in Times :
                  LET r == ProjectService_update_project_results(projects_store,
                               run.project.id, output["plan"], output["schedule"],
                               output["review"], output["html_output"], now)
                      updated_project == r.value
                  IN  /\ projects_store' = r.store
                      /\ IF updated_project = None
                         THEN /\ run' = [run EXCEPT !.node = "raised",
                                            !.exc = Exception("AttributeError: 'NoneType' object has no attribute 'id'")]
                              /\ UNCHANGED resp
                         ELSE /\ resp' = Respond("POST /generate-project-plan",
                                            run.project_input, 200,
                                            ProjectResponse(updated_project.id,
                                                output["plan"], output["schedule"],
                                                output["review"], output["html_output"],
                                                updated_project.created_at))
                              /\ run' = Idle
    /\ UNCHANGED <<uuids, ret>>

\* Variant of the except clause: what the workflow produced so far is saved
generate_project_plan_except_saving ==
    /\ run.node = "raised"
    /\ LET Out(k) == IF k \in DOMAIN run.state THEN run.state[k] ELSE None
       IN  projects_store' = ProjectService_update_project_results(projects_store,
                                 run.project.id, Out("plan"), Out("schedule"),
                                 Out("review"), Out("html_output"), run.project.created_at).store
    /\ resp' = RespondError("POST /generate-project-plan", run.project_input,
                            HTTPException(500, run.exc.message))
    /\ run' = Idle
    /\ UNCHANGED <<uuids, ret>>

\* except Exception as e: raise HTTPException(status_code=500, detail=str(e))
generate_project_plan_except ==
    /\ run.node = "raised"
    /\ resp' = RespondError("POST /generate-project-plan", run.project_input,
                            HTTPException(500, run.exc.message))
    /\ run' = Idle
    /\ UNCHANGED <<projects_store, uuids, ret>>

get_projects ==
    /\ EventLoopFree
    /\ LET projects == ProjectService_get_all_projects(projects_store)
       IN  resp' = Respond("GET /projects", None, 200,
                           [i \in DOMAIN projects |-> ProjectListResponse(projects[i])])
    /\ UNCHANGED <<projects_store, uuids, run, ret>>

\* Variant of the except clauses: `except HTTPException: raise` is missing
always_500(exc) ==
    HTTPException(500, IF exc.type = "HTTPException" THEN exc.detail ELSE exc.message)

\* The except clauses of get_project and of delete_project
reraise_or_500(exc) ==
    IF exc.type = "HTTPException" THEN exc ELSE HTTPException(500, exc.message)

get_project ==
    /\ EventLoopFree
    /\ \E project_id \in ProjectIds :
          LET project == ProjectService_get_project_by_id(projects_store, project_id)
              op == "GET /projects/{project_id}"
          IN  resp' = IF project = None
                      THEN RespondError(op, project_id,
                               reraise_or_500(HTTPException(404, "Project not found")))
                      ELSE Respond(op, project_id, 200,
                               ProjectResponse(project.id, OrEmpty(project.plan),
                                   OrEmpty(project.schedule), OrEmpty(project.review),
                                   OrEmpty(project.html_output), project.created_at))
    /\ UNCHANGED <<projects_store, uuids, run, ret>>

delete_project ==
    /\ EventLoopFree
    /\ \E project_id \in ProjectIds :
          LET r == ProjectService_delete_project(projects_store, project_id)
              op == "DELETE /projects/{project_id}"
          IN  /\ projects_store' = r.store
              /\ resp' = IF ~r.value
                         THEN RespondError(op, project_id,
                                  reraise_or_500(HTTPException(404, "Project not found")))
                         ELSE Respond(op, project_id, 200,
                                  [message |-> "Project deleted successfully"])
    /\ UNCHANGED <<uuids, run, ret>>

\* The path parameter {query} matches a non-empty segment only
search_projects ==
    /\ EventLoopFree
    /\ \E query \in Queries \ {<<>>} :
          LET projects == ProjectService_search_projects(projects_store, query)
          IN  resp' = Respond("GET /projects/search/{query}", query, 200,
                              [i \in DOMAIN projects |-> ProjectListResponse(projects[i])])
    /\ UNCHANGED <<projects_store, uuids, run, ret>>

Next ==
    \/ generate_project_plan
    \/ app_workflow_invoke
    \/ generate_project_plan_update
    \/ generate_project_plan_except
    \/ get_projects
    \/ get_project
    \/ delete_project
    \/ search_projects

Spec == Init /\ [][Next]_vars

(***************************************************************************)
(* Properties of ProjectService, checked under ServiceSpec                 *)
(***************************************************************************)
InputFields == {"project_type", "objectives", "industry", "team_members", "requirements"}

GeneratedFields == {"plan", "schedule", "review", "html_output"}

\* The record create() is said to make of project_input
IsAsCreated(project, project_input) ==
    /\ \A f \in InputFields : project[f] = project_input[f]
    /\ \A f \in GeneratedFields : project[f] = None
    /\ project.created_at = project.updated_at

\* An update_project_results call on a present id does what C4 says; with
\* strict, updated_at must also exceed created_at
UpdateOnPresentId(strict) ==
    (ret'.fn = "update_project_results" /\ ret'.arg.project_id \in Keys(projects_store)) =>
        LET id == ret'.arg.project_id
            t == ret'.arg.texts
            old == Item(projects_store, id)
            new == DictGet(projects_store', id)
        IN  /\ new # None
            /\ \A f \in GeneratedFields : new[f] = t[f]
            /\ new.updated_at = ret'.arg.now
            /\ strict => new.updated_at > new.created_at
            /\ new.id = old.id
            /\ new.created_at = old.created_at
            /\ \A f \in InputFields : new[f] = old[f]
            /\ ret'.value = new
            /\ Len(projects_store') = Len(projects_store)
            /\ \A i \in DOMAIN projects_store :
                  projects_store[i].key # id => projects_store'[i] = projects_store[i]

\* C4 as stated: update_results on a present id sets the four generated fields
\* to the given values and leaves updated_at strictly greater than created_at,
\* with id, created_at, the input fields and every other record unchanged.
C4_Original == [][UpdateOnPresentId(TRUE)]_vars

\* C4 as amended: update_results on a present id sets the four generated fields
\* to the given values and updated_at to the clock reading taken by the update
\* (which need not exceed created_at), with id, created_at, the input fields
\* and every other record unchanged.
C4_UpdateSetsResults == [][UpdateOnPresentId(FALSE)]_vars

\* An update of a present id, beside another record, that left updated_at no
\* later than created_at
C4_Witness ==
    /\ ret.fn = "update_project_results"
    /\ ret.value # None
    /\ ret.value.updated_at <= ret.value.created_at
    /\ Len(projects_store) >= 2

DeleteStep ==
    ret'.fn = "delete_project" =>
        LET id == ret'.arg
            Keep(item) == item.key # id
        IN  IF id \in Keys(projects_store)
            THEN /\ ret'.value = TRUE
                 /\ id \notin Keys(projects_store')
                 /\ projects_store' = SelectSeq(projects_store, Keep)
            ELSE /\ ret'.value = FALSE
                 /\ projects_store' = projects_store

\* An id that was issued and is gone does not come back
DeletedStaysDeleted ==
    \A id \in 1 .. uuids : id \notin Keys(projects_store) => id \notin Keys(projects_store')

GetOfAbsentId ==
    (ret'.fn = "get_project_by_id" /\ ret'.arg \notin Keys(projects_store)) => ret'.value = None

\* C5: delete(id) of a present id returns true and removes exactly that record,
\* every later get(id) signals not-found and every other record is unchanged;
\* delete(id) of an absent id returns false and leaves the store unchanged.
C5_Delete == [][DeleteStep /\ DeletedStaysDeleted /\ GetOfAbsentId]_vars

\* get(id) signalled not-found for an id that had been issued, hence deleted,
\* while another record is still stored
C5_Witness ==
    /\ ret.fn = "get_project_by_id"
    /\ ret.arg <= uuids
    /\ ret.value = None
    /\ Len(projects_store) >= 1

\* q occurs in s when letter case is ignored
OccursIgnoringCase(q, s) ==
    \E k \in 0 .. (Len(s) - Len(q)) :
        \A i \in 1 .. Len(q) : LowerChar(q[i]) = LowerChar(s[k + i])

ShouldMatch(project, q) ==
    \/ OccursIgnoringCase(q, project.objectives)
    \/ OccursIgnoringCase(q, project.project_type)
    \/ OccursIgnoringCase(q, project.industry)

SearchStep ==
    ret'.fn = "search_projects" =>
        LET q == ret'.arg
            found == ret'.value
        IN  /\ projects_store' = projects_store
            /\ \A i \in DOMAIN projects_store :
                  ShouldMatch(projects_store[i].value, q)
                      <=> \E j \in DOMAIN found : found[j] = projects_store[i].value
            /\ \A j \in DOMAIN found :
                  \E i \in DOMAIN projects_store : found[j] = projects_store[i].value
            /\ \A j1, j2 \in DOMAIN found : found[j1].id = found[j2].id => j1 = j2

\* C6: search(query), the empty query included, returns exactly the stored
\* records for which the lower-cased query is a substring of the lower-cased
\* objectives, project_type or industry: none missing, none extra, none twice,
\* and the store is not modified.
C6_Search == [][SearchStep]_vars

\* A query with an upper-case letter matched one of two stored records
C6_Witness ==
    /\ ret.fn = "search_projects"
    /\ ret.arg # lower(ret.arg)
    /\ Len(ret.value) = 1
    /\ Len(projects_store) = 2

CreateStep ==
    (ret'.fn = "create_project" /\ uuids' # uuids) =>
        LET project == DictGet(projects_store', ret'.value.id)
        IN  /\ project # None
            /\ project = ret'.value
            /\ IsAsCreated(project, ret'.arg)

\* A record stays as it is under every call but an update or delete of its id
OtherCallsLeaveRecord ==
    \A id \in Keys(projects_store) :
        ( /\ ~(ret'.fn = "update_project_results" /\ ret'.arg.project_id = id)
          /\ ~(ret'.fn = "delete_project" /\ ret'.arg = id) )
            => DictGet(projects_store', id) = Item(projects_store, id)

GetStep ==
    ret'.fn = "get_project_by_id" =>
        ret'.value = DictGet(projects_store, ret'.arg)

GetRightAfterCreate ==
    (ret.fn = "create_project" /\ ret'.fn = "get_project_by_id" /\ ret'.arg = ret.value.id) =>
        /\ ret'.value # None
        /\ IsAsCreated(ret'.value, ret.arg)

\* C7: create(input) followed by get(id) with the returned id, with no update
\* or delete of that id in between, returns a record whose five input fields
\* equal the input, whose four generated fields are null and whose created_at
\* equals updated_at.
C7_CreateThenGet ==
    [][CreateStep /\ OtherCallsLeaveRecord /\ GetStep /\ GetRightAfterCreate]_vars

\* get returned a never-updated record while two records are stored
C7_Witness ==
    /\ ret.fn = "get_project_by_id"
    /\ ret.value # None
    /\ ret.value.plan = None
    /\ ret.value.created_at = ret.value.updated_at
    /\ Len(projects_store) = 2

(***************************************************************************)
(* Properties of the application, checked under Spec                       *)
(***************************************************************************)
PostPlan == "POST /generate-project-plan"

\* The request starts: create appends the new record and touches no other
RunStarts ==
    (run.node = "idle" /\ run'.node # "idle") =>
        /\ projects_store' = Append(projects_store,
                                 [key |-> run'.project.id, value |-> run'.project])
        /\ IsAsCreated(run'.project, run'.project_input)

\* While the stages run, failing or not, the store is not written
StagesLeaveStore ==
    run.node \in Nodes => projects_store' = projects_store

\* A failed run ends in a 500 with the record as create left it, the store
\* otherwise as it was, and without the update step
FailedRunEnds ==
    run.node = "raised" =>
        /\ run'.node = "idle"
        /\ resp'.op = PostPlan
        /\ resp'.status = 500
        /\ projects_store' = projects_store
        /\ DictGet(projects_store', run.project.id) = run.project
        /\ IsAsCreated(run.project, run.project_input)

\* C1: when any of the four stages of a POST /generate-project-plan fails, the
\* update step is never reached: the record created for the request stays as
\* create left it (generated fields null, updated_at = created_at), no other
\* record is changed, and the caller receives a 500.
C1_FailedRunLeavesRecord == [][RunStarts /\ StagesLeaveStore /\ FailedRunEnds]_vars

\* A run failed after an earlier run had stored its results
C1_Witness ==
    /\ resp.op = PostPlan
    /\ resp.status = 500
    /\ Len(projects_store) = 2
    /\ projects_store[1].value.plan # None
    /\ projects_store[2].value.plan = None

\* The run whose four stages succeeded responds 200 with its own outputs and
\* the record under the returned id holds them
SucceededRunResponds ==
    run.node = END =>
        /\ run'.node = "idle"
        /\ resp'.op = PostPlan
        /\ resp'.status = 200
        /\ resp'.body.id = run.project.id
        /\ \A f \in GeneratedFields : resp'.body[f] = run.state[f]
        /\ resp'.body.created_at = run.project.created_at
        /\ LET stored == DictGet(projects_store', resp'.body.id)
           IN  /\ stored # None
               /\ \A f \in GeneratedFields : stored[f] = run.state[f]

\* C2: a POST /generate-project-plan whose four stages all succeed responds
\* successfully, whatever other requests the process serves around it, with the
\* four outputs of its own run, and when it responds the store holds a record
\* under the returned id with those four outputs.
C2_SucceededRunStored == [][SucceededRunResponds]_vars

\* A run succeeded after another request had deleted the earlier record
C2_Witness ==
    /\ resp.op = PostPlan
    /\ resp.status = 200
    /\ resp.body.id = 2
    /\ Keys(projects_store) = {2}

ByIdOps == {"GET /projects/{project_id}", "DELETE /projects/{project_id}"}

MissingIdMessage == "AttributeError: 'NoneType' object has no attribute 'id'"

\* A by-id request naming an absent id gets a 404 and changes nothing
AbsentIdGets404 ==
    (resp' # resp /\ resp'.op \in ByIdOps /\ resp'.arg \notin Keys(projects_store)) =>
        /\ resp'.status = 404
        /\ projects_store' = projects_store

\* The record of the run in flight is present when the run looks it up, and a
\* 500 never reports a missing id
No500ForMissingId ==
    /\ run.node \in Nodes \cup {END} => run.project.id \in Keys(projects_store)
    /\ run.node = "raised" => run.exc.message # MissingIdMessage
    /\ resp.status = 500 => (resp.op = PostPlan /\ resp.body.detail # MissingIdMessage)

\* C3: every request that operates on an id absent from the store is answered
\* 404 and leaves the store unchanged; a 500 is produced only for failures
\* other than not-found.
C3_NotFoundIs404 == [][AbsentIdGets404]_vars /\ []No500ForMissingId

\* A DELETE of an absent id was answered 404 while a record is stored
C3_Witness ==
    /\ resp.op = "DELETE /projects/{project_id}"
    /\ resp.status = 404
    /\ Len(projects_store) >= 1

SummaryFields == {"id", "project_type", "objectives", "industry", "created_at"}

\* Keys are distinct, issued ids, and each record carries its key as its id
StoreIdsUnique ==
    /\ Cardinality(Keys(projects_store)) = Len(projects_store)
    /\ Keys(projects_store) \subseteq 1 .. uuids
    /\ \A i \in DOMAIN projects_store : projects_store[i].value.id = projects_store[i].key

\* Only a create adds a key (the id just issued), only a successful DELETE
\* removes one (the id it named), and a stored record keeps its id
KeysFollowCreatesAndDeletes ==
    /\ uuids' # uuids =>
          /\ uuids' = uuids + 1
          /\ Keys(projects_store') = Keys(projects_store) \cup {uuids'}
    /\ uuids' = uuids =>
          \/ Keys(projects_store') = Keys(projects_store)
          \/ /\ resp'.op = "DELETE /projects/{project_id}"
             /\ resp'.status = 200
             /\ resp'.arg \in Keys(projects_store)
             /\ Keys(projects_store') = Keys(projects_store) \ {resp'.arg}
    /\ \A id \in Keys(projects_store) \cap Keys(projects_store') :
          Item(projects_store', id).id = Item(projects_store, id).id

\* GET /projects answers one summary per stored record, of five fields only
ListStep ==
    (resp' # resp /\ resp'.op = "GET /projects") =>
        LET body == resp'.body
        IN  /\ resp'.status = 200
            /\ Len(body) = Len(projects_store)
            /\ \A i \in DOMAIN body :
                  /\ DOMAIN body[i] = SummaryFields
                  /\ body[i].id = projects_store[i].key
                  /\ \A f \in SummaryFields : body[i][f] = projects_store[i].value[f]
            /\ \A i, j \in DOMAIN body : body[i].id = body[j].id => i = j

\* C8: list_all returns exactly one entry per record created and not since
\* deleted, the ids are pairwise distinct and each is the id given at
\* creation, and the GET /projects summary carries only id, project_type,
\* objectives, industry and created_at.
C8_ListAll == []StoreIdsUnique /\ [][KeysFollowCreatesAndDeletes /\ ListStep]_vars

\* GET /projects listed two records, one of them with generated fields stored
C8_Witness ==
    /\ resp.op = "GET /projects"
    /\ Len(resp.body) = 2
    /\ \E i \in DOMAIN projects_store : projects_store[i].value.plan # None

AllNull(project) == \A f \in GeneratedFields : project[f] = None

AllPopulated(project) == \A f \in GeneratedFields : project[f] # None

\* C9: in every reachable state each stored record has plan, schedule, review
\* and html_output either all null or all populated, and a GET of a record
\* shows the four either all empty or all filled.
C9_AllOrNothing ==
    /\ \A i \in DOMAIN projects_store :
          AllNull(projects_store[i].value) \/ AllPopulated(projects_store[i].value)
    /\ (resp.op = "GET /projects/{project_id}" /\ resp.status = 200) =>
          \/ \A f \in GeneratedFields : resp.body[f] = EmptyStr
          \/ \A f \in GeneratedFields : resp.body[f] # EmptyStr

\* A record with results and a record without are stored together
C9_Witness ==
    /\ Len(projects_store) = 2
    /\ AllNull(projects_store[1].value)
    /\ AllPopulated(projects_store[2].value)

\* The order the stages are said to run in, and what each is said to write
StageOrder == <<"planner", "scheduler", "reviewer", "html_generator", END>>

StageWrites == <<"plan", "schedule", "review", "html_output">>

\* What has been written when the k-th position of StageOrder is reached
WrittenBefore(k) == {"input"} \cup { StageWrites[j] : j \in 1 .. (k - 1) }

\* At each stage exactly the earlier stages' fields are written, so every field
\* a stage reads is there and no stage has run twice
StageSeesEarlierFields ==
    \A k \in DOMAIN StageOrder :
        run.node = StageOrder[k] => DOMAIN run.state = WrittenBefore(k)

\* Each written field is the reply to a prompt built from this run's input
\* and this run's earlier fields
ReadsThisRunsFields ==
    LET st == run.state
    IN  /\ "plan" \in DOMAIN st => st["plan"].content.project_info = st["input"]
        /\ "schedule" \in DOMAIN st =>
              /\ st["schedule"].content.plan = st["plan"]
              /\ st["schedule"].content.project_info = st["input"]
        /\ "review" \in DOMAIN st =>
              /\ st["review"].content.schedule = st["schedule"]
              /\ st["review"].content.project_info = st["input"]
        /\ "html_output" \in DOMAIN st =>
              /\ st["html_output"].content.plan = st["plan"]
              /\ st["html_output"].content.schedule = st["schedule"]
              /\ st["html_output"].content.review = st["review"]
              /\ st["html_output"].content.project_info = st["input"]

\* A run fails only because an llm.invoke raised, never for a missing field
FailureIsTheGenerators ==
    run.node = "raised" =>
        run.exc.message \in { "llm.invoke failed in " \o n : n \in Nodes }

\* A stage either writes its own field and hands over to the next stage, or
\* fails, after which no stage runs
StageStep ==
    /\ (run.node = "idle" /\ run'.node # "idle") => run'.node = StageOrder[1]
    /\ \A k \in 1 .. 4 :
          (run.node = StageOrder[k] /\ run' # run) =>
              \/ /\ run'.node = StageOrder[k + 1]
                 /\ DOMAIN run'.state = DOMAIN run.state \cup {StageWrites[k]}
                 /\ \A f \in DOMAIN run.state : run'.state[f] = run.state[f]
              \/ /\ run'.node = "raised"
                 /\ run'.state = run.state
    /\ run.node = "raised" => run'.node = "idle"
    /\ run.node = END => run'.node = "idle"

\* C10: every run executes plan, schedule, review, render in that order, each
\* at most once, with no branch or loop: a stage starts only after the fields
\* it reads were written in the same run, a failure in a stage means no later
\* stage runs, and the terminal state is reached only with all four written.
C10_StageOrder ==
    /\ [](StageSeesEarlierFields /\ FailureIsTheGenerators)
    /\ [](run.node # "idle" => ReadsThisRunsFields)
    /\ [][StageStep]_vars

\* A run reached the terminal state with all four fields written
C10_Witness ==
    /\ run.node = END
    /\ GeneratedFields \subseteq DOMAIN run.state

====
